---- MODULE Spec2Model ----
(***************************************************************************)
(* Model of src/src/main.py: the /parse_resume request handler, the       *)
(* response parser inside process_chunk and merge_results.                *)
(*                                                                         *)
(* Texts (model replies) are sequences of units.  A unit is one character *)
(* of punctuation, whitespace or a digit, or one maximal run of letters   *)
(* (a word such as "name" or "null").  The texts of the model are over    *)
(* the characters  { } [ ] , : " space newline 0-9 and letters; they hold *)
(* no backslash, sign, fraction or exponent.                               *)
(*                                                                         *)
(* JSON values (Python objects after json.loads) are tagged records       *)
(* [t, n, s, items, pairs]: t is "null", "bool", "num", "str", "list" or  *)
(* "dict"; n is the number (1 or 0 for True or False), s the units of a   *)
(* str, items the elements of a list, pairs the [k, val] pairs of a dict  *)
(* in insertion order.  The fields a tag does not use are 0 or <<>>.      *)
(***************************************************************************)
EXTENDS Integers, Sequences, FiniteSets, TLC

VARIABLES
    pc,             \* parse_resume: position of the handler
    tmp_created,    \* NamedTemporaryFile has created the file of this request
    tmp_exists,     \* the file at tmp_path exists on disk
    chunks,         \* number of chunks split_text_into_chunks returned
    replies,        \* replies[i]: response.text of chunk i's model call, once made
    calls,          \* calls[i]: number of generate_content calls made for chunk i
    task_result,    \* task_result[i]: what process_chunk(chunk i) returned
    completed,      \* chunk indices in the order their tasks completed
    chunk_results,  \* what asyncio.gather handed back to parse_resume
    response,       \* the JSONResponse content, once returned
    outcome,        \* "none", "respond" or "fault" (an exception left the handler)
    fault_stage,    \* the stage whose exception left the handler, "" if none
    raw_text,       \* response parser alone: the reply text
    parsed,         \* response parser alone: what it produced
    results,        \* merge_results alone: its argument
    merged          \* merge_results alone: what it produced

vars == <<pc, tmp_created, tmp_exists, chunks, replies, calls, task_result,
          completed, chunk_results, response, outcome, fault_stage,
          raw_text, parsed, results, merged>>

handler_vars == <<pc, tmp_created, tmp_exists, chunks, replies, calls,
                  task_result, completed, chunk_results, response, outcome,
                  fault_stage>>
parser_vars == <<raw_text, parsed>>
merger_vars == <<results, merged>>

\* ------------------------------------------------------------------ bounds

MaxLen == 4        \* longest enumerated reply text, in units
MaxResults == 3    \* longest enumerated argument of merge_results
MaxChunks == 3     \* most chunks of one request

\* ------------------------------------------------------------ JSON values

JValue(t, n, s, items, pairs) ==
    [t |-> t, n |-> n, s |-> s, items |-> items, pairs |-> pairs]
JNull == JValue("null", 0, <<>>, <<>>, <<>>)
JBool(b) == JValue("bool", IF b THEN 1 ELSE 0, <<>>, <<>>, <<>>)
JNum(n) == JValue("num", n, <<>>, <<>>, <<>>)
JStr(s) == JValue("str", 0, s, <<>>, <<>>)
JList(xs) == JValue("list", 0, <<>>, xs, <<>>)
JDict(pairs) == JValue("dict", 0, <<>>, <<>>, pairs)

Min(S) == CHOOSE x \in S : \A y \in S : x <= y
Max(S) == CHOOSE x \in S : \A y \in S : x >= y

\* pairs: the [k, val] pairs of a dict
has_key(pairs, key) == \E i \in 1..Len(pairs) : pairs[i].k = key

\* d[key] = val on the pairs of a dict: a key that is present keeps its place
dict_set(pairs, key, val) ==
    IF has_key(pairs, key)
    THEN [i \in 1..Len(pairs) |->
             IF pairs[i].k = key THEN [k |-> key, val |-> val] ELSE pairs[i]]
    ELSE Append(pairs, [k |-> key, val |-> val])

\* d.get(key, default) of a dict d
dict_get(d, key, default) ==
    IF has_key(d.pairs, key)
    THEN d.pairs[CHOOSE i \in 1..Len(d.pairs) : d.pairs[i].k = key].val
    ELSE default

\* ------------------------------------------------------------- json.loads

Whitespace == {" ", "\n"}
DigitChars == <<"0", "1", "2", "3", "4", "5", "6", "7", "8", "9">>
IsDigit(c) == \E d \in 1..Len(DigitChars) : DigitChars[d] = c
DigitValue(c) == (CHOOSE d \in 1..Len(DigitChars) : DigitChars[d] = c) - 1

ScanOk(val, end) == [ok |-> TRUE, val |-> val, end |-> end]
ScanFail == [ok |-> FALSE, val |-> JNull, end |-> 0]

\* the first index >= i of s that holds no whitespace, Len(s) + 1 if none
skip_ws(s, i) ==
    LET stops == {j \in i..Len(s) : s[j] \notin Whitespace}
    IN  IF stops = {} THEN Len(s) + 1 ELSE Min(stops)

\* a string literal opening at s[i]: up to the next quote, no control character
scanstring(s, i) ==
    LET closes == {j \in (i + 1)..Len(s) : s[j] = "\""}
    IN  IF closes = {} THEN ScanFail
        ELSE LET j == Min(closes)
             IN  IF \E k \in (i + 1)..(j - 1) : s[k] = "\n" THEN ScanFail
                 ELSE ScanOk(JStr(SubSeq(s, i + 1, j - 1)), j + 1)

RECURSIVE digits_value(_)
digits_value(ds) ==
    IF ds = <<>> THEN 0
    ELSE 10 * digits_value(SubSeq(ds, 1, Len(ds) - 1)) + DigitValue(ds[Len(ds)])

\* an integer literal at s[i]: 0, or a nonzero digit and the digits after it
match_number(s, i) ==
    IF s[i] = "0" THEN ScanOk(JNum(0), i + 1)
    ELSE LET stops == {j \in i..Len(s) : ~IsDigit(s[j])}
             end == IF stops = {} THEN Len(s) + 1 ELSE Min(stops)
         IN  ScanOk(JNum(digits_value(SubSeq(s, i, end - 1))), end)

RECURSIVE scan_once(_, _), parse_object(_, _, _), parse_array(_, _, _)

\* the JSON value that starts at s[i]
scan_once(s, i) ==
    IF i > Len(s) THEN ScanFail
    ELSE CASE s[i] = "\"" -> scanstring(s, i)
           [] s[i] = "{" ->
                LET j == skip_ws(s, i + 1)
                IN  IF j <= Len(s) /\ s[j] = "}" THEN ScanOk(JDict(<<>>), j + 1)
                    ELSE parse_object(s, j, <<>>)
           [] s[i] = "[" ->
                LET j == skip_ws(s, i + 1)
                IN  IF j <= Len(s) /\ s[j] = "]" THEN ScanOk(JList(<<>>), j + 1)
                    ELSE parse_array(s, j, <<>>)
           [] s[i] = "null" -> ScanOk(JNull, i + 1)
           [] s[i] = "true" -> ScanOk(JBool(TRUE), i + 1)
           [] s[i] = "false" -> ScanOk(JBool(FALSE), i + 1)
           [] IsDigit(s[i]) -> match_number(s, i)
           [] OTHER -> ScanFail

\* the members of an object from s[i], where a key must start; pairs so far
parse_object(s, i, pairs) ==
    IF i > Len(s) \/ s[i] # "\"" THEN ScanFail
    ELSE LET key == scanstring(s, i)
         IN  IF ~key.ok THEN ScanFail
             ELSE LET c == skip_ws(s, key.end)
                  IN  IF c > Len(s) \/ s[c] # ":" THEN ScanFail
                      ELSE LET val == scan_once(s, skip_ws(s, c + 1))
                           IN  IF ~val.ok THEN ScanFail
                               ELSE LET d2 == dict_set(pairs, key.val.s, val.val)
                                        e == skip_ws(s, val.end)
                                    IN  IF e > Len(s) THEN ScanFail
                                        ELSE IF s[e] = "}" THEN ScanOk(JDict(d2), e + 1)
                                        ELSE IF s[e] = ","
                                             THEN parse_object(s, skip_ws(s, e + 1), d2)
                                        ELSE ScanFail

\* the elements of an array from s[i], where a value must start; elements so far
parse_array(s, i, xs) ==
    LET val == scan_once(s, i)
    IN  IF ~val.ok THEN ScanFail
        ELSE LET e == skip_ws(s, val.end)
                 ys == Append(xs, val.val)
             IN  IF e > Len(s) THEN ScanFail
                 ELSE IF s[e] = "]" THEN ScanOk(JList(ys), e + 1)
                 ELSE IF s[e] = "," THEN parse_array(s, skip_ws(s, e + 1), ys)
                 ELSE ScanFail

\* json.loads(s): the decoded value, or JSONDecodeError
json_loads(s) ==
    LET r == scan_once(s, skip_ws(s, 1))
    IN  IF r.ok /\ skip_ws(s, r.end) = Len(s) + 1
        THEN [ok |-> TRUE, val |-> r.val, exc |-> ""]
        ELSE [ok |-> FALSE, val |-> JNull, exc |-> "JSONDecodeError"]

\* -------------------------------------------- process_chunk: response parser

\* re.search with the non-greedy pattern r"\{.*?\}": the first "{" through the
\* first "}" after it
re_search_nongreedy(s) ==
    LET opens == {i \in 1..Len(s) : s[i] = "{"}
    IN  IF opens = {} THEN [found |-> FALSE, start |-> 0, end |-> 0]
        ELSE LET i == Min(opens)
                 closes == {j \in (i + 1)..Len(s) : s[j] = "}"}
             IN  IF closes = {} THEN [found |-> FALSE, start |-> 0, end |-> 0]
                 ELSE [found |-> TRUE, start |-> i, end |-> Min(closes)]

\* re.search(r"\{.*\}", s, flags=re.DOTALL): the first "{" through the last "}"
re_search(s) ==
    LET opens == {i \in 1..Len(s) : s[i] = "{"}
    IN  IF opens = {} THEN [found |-> FALSE, start |-> 0, end |-> 0]
        ELSE LET i == Min(opens)
                 closes == {j \in (i + 1)..Len(s) : s[j] = "}"}
             IN  IF closes = {} THEN [found |-> FALSE, start |-> 0, end |-> 0]
                 ELSE [found |-> TRUE, start |-> i, end |-> Max(closes)]

\* s.strip()
strip(s) ==
    LET keep == {i \in 1..Len(s) : s[i] \notin Whitespace}
    IN  IF keep = {} THEN <<>> ELSE SubSeq(s, Min(keep), Max(keep))

\* json_text = match.group(0) if match else raw_text.strip()
json_text(raw) ==
    LET match == re_search(raw)
    IN  IF match.found THEN SubSeq(raw, match.start, match.end) ELSE strip(raw)

raw_output_key == <<"raw_output">>
error_key == <<"error">>
error_marker == JStr(<<"Failed", " ", "to", " ", "parse", " ", "JSON">>)

\* {"raw_output": raw_text, "error": "Failed to parse JSON"}
error_record(raw) ==
    JDict(<<[k |-> raw_output_key, val |-> JStr(raw)],
            [k |-> error_key, val |-> error_marker]>>)

Returned(val) == [raised |-> FALSE, val |-> val, exc |-> ""]
Raised(exc) == [raised |-> TRUE, val |-> JNull, exc |-> exc]

\* the except clause with "raw_output": json_text in place of raw_text
parse_reply_keeps_json_text(raw) ==
    LET r == json_loads(json_text(raw))
    IN  IF r.ok THEN Returned(r.val)
        ELSE IF r.exc = "JSONDecodeError" THEN Returned(error_record(json_text(raw)))
        ELSE Raised(r.exc)

\* a second attempt on the entire trimmed reply when the first text fails
parse_reply_with_fallback(raw) ==
    LET r == json_loads(json_text(raw))
        whole == json_loads(strip(raw))
    IN  IF r.ok THEN Returned(r.val)
        ELSE IF whole.ok THEN Returned(whole.val)
        ELSE Returned(error_record(raw))

\* try: parsed = json.loads(json_text)
\* except json.JSONDecodeError: parsed = {"raw_output": raw_text, "error": ...}
parse_reply(raw) ==
    LET r == json_loads(json_text(raw))
    IN  IF r.ok THEN Returned(r.val)
        ELSE IF r.exc = "JSONDecodeError" THEN Returned(error_record(raw))
        ELSE Raised(r.exc)

\* ------------------------------------------------------------ merge_results

name_key == <<"name">>
contact_key == <<"contact">>
email_key == <<"email">>
phone_key == <<"phone">>
skills_key == <<"skills">>
experience_key == <<"experience">>
education_key == <<"education">>
certifications_key == <<"certifications">>
ats_score_key == <<"ats_score">>
keywords_key == <<"keywords">>
suggestions_key == <<"suggestions">>
ats_reason_key == <<"ats_reason">>

\* the dict literal merge_results starts from
initial_merged ==
    JDict(<<[k |-> name_key, val |-> JNull],
            [k |-> contact_key,
             val |-> JDict(<<[k |-> email_key, val |-> JNull],
                             [k |-> phone_key, val |-> JNull]>>)],
            [k |-> skills_key, val |-> JList(<<>>)],
            [k |-> experience_key, val |-> JList(<<>>)],
            [k |-> education_key, val |-> JList(<<>>)],
            [k |-> certifications_key, val |-> JList(<<>>)],
            [k |-> ats_score_key, val |-> JNum(0)],
            [k |-> keywords_key, val |-> JList(<<>>)],
            [k |-> suggestions_key, val |-> JList(<<>>)],
            [k |-> ats_reason_key, val |-> JStr(<<>>)]>>)

\* the keys of the loop "for key in [...]: merged[key].extend(r.get(key, []))"
list_keys == <<skills_key, experience_key, education_key, certifications_key,
               keywords_key, suggestions_key>>

\* the deduplication loop with "keywords" left out
dedup_keys_without_keywords == <<skills_key, suggestions_key>>

\* the keys of the loop "for key in [...]: merged[key] = list(dict.fromkeys(...))"
dedup_keys == <<skills_key, keywords_key, suggestions_key>>

MergeOk(val) == [ok |-> TRUE, val |-> val, exc |-> ""]
MergeFault(exc) == [ok |-> FALSE, val |-> JNull, exc |-> exc]

\* d[key] of a dict d that holds key
item(d, key) == dict_get(d, key, JNull)
\* d[key] = val
set_item(d, key, val) == JDict(dict_set(d.pairs, key, val))

\* bool(x)
truthy(x) ==
    CASE x.t = "null" -> FALSE
      [] x.t \in {"bool", "num"} -> x.n # 0
      [] x.t = "str" -> Len(x.s) > 0
      [] x.t = "list" -> Len(x.items) > 0
      [] OTHER -> Len(x.pairs) > 0

\* what list.extend(x) appends: the elements of a list, the units of a str,
\* the keys of a dict; TypeError for what is not iterable
iterate(x) ==
    CASE x.t = "list" -> [ok |-> TRUE, items |-> x.items]
      [] x.t = "str" -> [ok |-> TRUE, items |-> [i \in 1..Len(x.s) |-> JStr(<<x.s[i]>>)]]
      [] x.t = "dict" ->
            [ok |-> TRUE, items |-> [i \in 1..Len(x.pairs) |-> JStr(x.pairs[i].k)]]
      [] OTHER -> [ok |-> FALSE, items |-> <<>>]

\* for key in list_keys[i..]: merged[key].extend(r.get(key, []))
RECURSIVE extend_lists(_, _, _)
extend_lists(m, r, i) ==
    IF i > Len(list_keys) THEN MergeOk(m)
    ELSE LET key == list_keys[i]
             it == iterate(dict_get(r, key, JList(<<>>)))
         IN  IF ~it.ok THEN MergeFault("TypeError")
             ELSE extend_lists(set_item(m, key, JList(item(m, key).items \o it.items)),
                               r, i + 1)

\* if not merged["name"] and r.get("name"): merged["name"] = r["name"]
merge_name(m, r) ==
    IF ~truthy(item(m, name_key)) /\ truthy(dict_get(r, name_key, JNull))
    THEN set_item(m, name_key, item(r, name_key))
    ELSE m

\* if not merged["contact"][field] and r.get("contact", {}).get(field):
\*     merged["contact"][field] = r["contact"][field]
merge_contact(m, r, field) ==
    IF truthy(item(item(m, contact_key), field)) THEN MergeOk(m)
    ELSE LET c == dict_get(r, contact_key, JDict(<<>>))
         IN  IF c.t # "dict" THEN MergeFault("AttributeError")
             ELSE IF truthy(dict_get(c, field, JNull))
                  THEN MergeOk(set_item(m, contact_key,
                                        set_item(item(m, contact_key), field,
                                                 item(c, field))))
                  ELSE MergeOk(m)

\* one pass of the loop that also copies a chunk's "error" into merged
merge_one_keeps_error(m, r) ==
    IF r.t # "dict" THEN MergeFault("AttributeError")
    ELSE LET a == extend_lists(m, r, 1)
         IN  IF ~a.ok THEN a
             ELSE LET c == merge_contact(merge_name(a.val, r), r, email_key)
                  IN  IF ~c.ok THEN c
                      ELSE LET d == merge_contact(c.val, r, phone_key)
                           IN  IF d.ok /\ has_key(r.pairs, error_key)
                               THEN MergeOk(set_item(d.val, error_key, item(r, error_key)))
                               ELSE d

\* one pass of the loop "for r in results"
merge_one(m, r) ==
    IF r.t # "dict" THEN MergeFault("AttributeError")
    ELSE LET a == extend_lists(m, r, 1)
         IN  IF ~a.ok THEN a
             ELSE LET c == merge_contact(merge_name(a.val, r), r, email_key)
                  IN  IF ~c.ok THEN c ELSE merge_contact(c.val, r, phone_key)

RECURSIVE merge_loop(_, _, _)
merge_loop(rs, i, m) ==
    IF i > Len(rs) THEN MergeOk(m)
    ELSE LET step == merge_one(m, rs[i])
         IN  IF ~step.ok THEN step ELSE merge_loop(rs, i + 1, step.val)

\* isinstance(x, (int, float)): bool is a subclass of int
is_int_or_float(x) == x.t \in {"num", "bool"}
\* the value of x in arithmetic: True is 1, False is 0
number_value(x) == x.n

\* [r.get("ats_score", 0) for r in results
\*  if isinstance(r.get("ats_score"), (int, float))]
score_list(rs) ==
    LET scored == SelectSeq(rs, LAMBDA r : is_int_or_float(dict_get(r, ats_score_key, JNull)))
    IN  [i \in 1..Len(scored) |-> number_value(dict_get(scored[i], ats_score_key, JNum(0)))]

RECURSIVE sum(_)
sum(xs) == IF xs = <<>> THEN 0 ELSE Head(xs) + sum(Tail(xs))

\* sum(scores) // len(scores) if scores else 0
mean_score(scores) == IF scores = <<>> THEN 0 ELSE sum(scores) \div Len(scores)

\* list and dict values have no hash
hashable(x) == x.t \notin {"list", "dict"}
\* the key of x in a dict: True and 1, False and 0 are the same key
py_key(x) == IF x.t = "bool" THEN JNum(number_value(x)) ELSE x

\* list(dict.fromkeys(xs)), acc the keys so far
RECURSIVE fromkeys(_, _)
fromkeys(xs, acc) ==
    IF xs = <<>> THEN acc
    ELSE fromkeys(Tail(xs),
                  IF \E j \in 1..Len(acc) : py_key(acc[j]) = py_key(Head(xs))
                  THEN acc ELSE Append(acc, Head(xs)))

\* for key in dedup_keys[i..]: merged[key] = list(dict.fromkeys(merged[key]))
RECURSIVE dedup_lists(_, _)
dedup_lists(m, i) ==
    IF i > Len(dedup_keys) THEN MergeOk(m)
    ELSE LET key == dedup_keys[i]
             xs == item(m, key).items
         IN  IF \E j \in 1..Len(xs) : ~hashable(xs[j]) THEN MergeFault("TypeError")
             ELSE dedup_lists(set_item(m, key, JList(fromkeys(xs, <<>>))), i + 1)

merge_results(rs) ==
    LET looped == merge_loop(rs, 1, initial_merged)
    IN  IF ~looped.ok THEN looped
        ELSE dedup_lists(set_item(looped.val, ats_score_key,
                                  JNum(mean_score(score_list(rs)))), 1)

\* ------------------------------------------------ process_chunks_concurrent

\* the results in the order the tasks completed (asyncio.as_completed)
gather_in_completion_order(n, done_order, result_of) ==
    [k \in 1..Len(done_order) |-> result_of[done_order[k]]]

\* asyncio.gather(*tasks): the tasks' results in the order of the tasks
gather_results(n, done_order, result_of) == [i \in 1..n |-> result_of[i]]

\* --------------------------------------------------------------- the inputs

\* replies of the model: a JSON object, one inside prose, prose alone, an
\* object whose contact is null, an array of a number
Replies ==
    { <<"{", "\"", "name", "\"", ":", "\"", "Jane", "\"", ",",
        "\"", "skills", "\"", ":", "[", "\"", "a", "\"", "]", "}">>,
      <<"Here", ":", " ", "{", "\"", "name", "\"", ":", "\"", "X", "\"", "}",
        "\n", "done">>,
      <<"Sorry">>,
      <<"{", "\"", "contact", "\"", ":", "null", "}">>,
      <<"[", "1", "]">> }

\* further reply texts for the response parser: an array of two objects, a
\* string holding braces, a nested object inside prose, an object between
\* whitespace, prose between whitespace
SampleTexts ==
    Replies \cup
    { <<"[", "{", "}", ",", "{", "}", "]">>,
      <<"\"", "{", "x", "}", "\"">>,
      <<"x", "{", "\"", "k", "\"", ":", "{", "}", "}", "x">>,
      <<"\n", " ", "{", "\"", "k", "\"", ":", "1", "}", " ">>,
      <<" ", "Sorry", "\n">> }

Alphabet == {"{", "}", "[", "]", ",", ":", "\"", "1", "x", " "}
Texts(n) == UNION {[1..k -> Alphabet] : k \in 0..n}

JWord(w) == JStr(<<w>>)
Pair(key, val) == [k |-> key, val |-> val]
role_dev == JDict(<<Pair(<<"role">>, JWord("dev"))>>)

\* values process_chunk can return: an error record, values that are no
\* object, objects with keys absent, null or of another type
ChunkValues ==
    { error_record(<<"Sorry">>),
      JList(<<JNum(1)>>),
      JDict(<<>>),
      JDict(<<Pair(name_key, JNull)>>),
      JDict(<<Pair(name_key, JWord("Jane")),
              Pair(contact_key, JDict(<<Pair(email_key, JWord("e")),
                                        Pair(phone_key, JNull)>>)),
              Pair(skills_key, JList(<<JWord("a"), JWord("b")>>)),
              Pair(experience_key, JList(<<role_dev>>)),
              Pair(ats_score_key, JNum(80))>>),
      JDict(<<Pair(name_key, JWord("X")),
              Pair(contact_key, JDict(<<Pair(email_key, JWord("f")),
                                        Pair(phone_key, JWord("p"))>>)),
              Pair(skills_key, JList(<<JWord("b"), JWord("c"), JWord("b")>>)),
              Pair(experience_key, JList(<<role_dev>>)),
              Pair(ats_score_key, JNum(90)),
              Pair(ats_reason_key, JWord("good"))>>),
      JDict(<<Pair(keywords_key, JList(<<JWord("k"), JWord("k")>>)),
              Pair(suggestions_key, JList(<<JWord("s")>>)),
              Pair(ats_score_key, JNum(70))>>),
      JDict(<<Pair(ats_score_key, JBool(TRUE))>>),
      JDict(<<Pair(ats_score_key, JWord("80"))>>),
      JDict(<<Pair(contact_key, JNull)>>),
      JDict(<<Pair(skills_key, JNull)>>) }

ResultLists(n) == UNION {[1..k -> ChunkValues] : k \in 0..n}

\* ------------------------------------------------------------ parse_resume

NoResponse == [ok |-> FALSE, data |-> JNull]

\* a request arrives; the parser and the merger on their own are not in use
Init ==
    /\ pc = "start"
    /\ tmp_created = FALSE
    /\ tmp_exists = FALSE
    /\ chunks = 0
    /\ replies = <<>>
    /\ calls = <<>>
    /\ task_result = <<>>
    /\ completed = <<>>
    /\ chunk_results = <<>>
    /\ response = NoResponse
    /\ outcome = "none"
    /\ fault_stage = ""
    /\ raw_text = <<>>
    /\ parsed = <<>>
    /\ results = <<>>
    /\ merged = <<>>

\* an exception of `stage` leaves the handler; inside the try block the
\* finally clause runs os.remove(tmp_path) first
Fault(stage, in_try) ==
    /\ pc' = "done"
    /\ outcome' = "fault"
    /\ fault_stage' = stage
    /\ tmp_exists' = IF in_try THEN FALSE ELSE tmp_exists

\* with NamedTemporaryFile(delete=False, suffix=Path(file.filename).suffix) as tmp
CreateTemp ==
    /\ pc = "start"
    /\ pc' = "write"
    /\ tmp_created' = TRUE
    /\ tmp_exists' = TRUE
    /\ UNCHANGED <<chunks, replies, calls, task_result, completed, chunk_results,
                   response, outcome, fault_stage, parser_vars, merger_vars>>

\* Path(file.filename) raises (the upload has no filename): no file is created
FilenameFault ==
    /\ pc = "start"
    /\ Fault("filename", FALSE)
    /\ UNCHANGED <<tmp_created, chunks, replies, calls, task_result, completed,
                   chunk_results, response, parser_vars, merger_vars>>

\* tmp.write(await file.read()), then the with block closes the file
WriteUpload ==
    /\ pc = "write"
    /\ pc' = "extract"
    /\ UNCHANGED <<tmp_created, tmp_exists, chunks, replies, calls, task_result,
                   completed, chunk_results, response, outcome, fault_stage,
                   parser_vars, merger_vars>>

\* file.read() or tmp.write() raises: the with block closes the file, which
\* delete=False keeps on disk, and the try block is never entered
WriteFault ==
    /\ pc = "write"
    /\ Fault("write", FALSE)
    /\ UNCHANGED <<tmp_created, chunks, replies, calls, task_result, completed,
                   chunk_results, response, parser_vars, merger_vars>>

\* resume_text = extract_text_from_pdf(tmp_path)
ExtractText ==
    /\ pc = "extract"
    /\ pc' = "split"
    /\ UNCHANGED <<tmp_created, tmp_exists, chunks, replies, calls, task_result,
                   completed, chunk_results, response, outcome, fault_stage,
                   parser_vars, merger_vars>>

ExtractFault ==
    /\ pc = "extract"
    /\ Fault("extract", TRUE)
    /\ UNCHANGED <<tmp_created, chunks, replies, calls, task_result, completed,
                   chunk_results, response, parser_vars, merger_vars>>

\* chunks = split_text_into_chunks(resume_text); one task per chunk
SplitText ==
    /\ pc = "split"
    /\ \E n \in 0..MaxChunks :
          /\ chunks' = n
          /\ replies' = [i \in 1..n |-> <<>>]
          /\ calls' = [i \in 1..n |-> 0]
          /\ task_result' = [i \in 1..n |-> JNull]
    /\ pc' = "gather"
    /\ UNCHANGED <<tmp_created, tmp_exists, completed, chunk_results, response,
                   outcome, fault_stage, parser_vars, merger_vars>>

SplitFault ==
    /\ pc = "split"
    /\ Fault("split", TRUE)
    /\ UNCHANGED <<tmp_created, chunks, replies, calls, task_result, completed,
                   chunk_results, response, parser_vars, merger_vars>>

\* process_chunk(chunk i): model.generate_content returns `text`, the response
\* parser runs on it.  The tasks may complete in any order.
ModelCall(i) ==
    /\ pc = "gather"
    /\ \A k \in 1..Len(completed) : completed[k] # i
    /\ \E text \in Replies :
          LET p == parse_reply(text)
          IN  /\ replies' = [replies EXCEPT ![i] = text]
              /\ calls' = [calls EXCEPT ![i] = @ + 1]
              /\ IF p.raised
                 THEN /\ Fault("parse", TRUE)
                      /\ UNCHANGED <<task_result, completed>>
                 ELSE /\ task_result' = [task_result EXCEPT ![i] = p.val]
                      /\ completed' = Append(completed, i)
                      /\ UNCHANGED <<pc, tmp_exists, outcome, fault_stage>>
    /\ UNCHANGED <<tmp_created, chunks, chunk_results, response, parser_vars,
                   merger_vars>>

\* model.generate_content raises in chunk i's task: gather raises it
ModelCallFault(i) ==
    /\ pc = "gather"
    /\ \A k \in 1..Len(completed) : completed[k] # i
    /\ calls' = [calls EXCEPT ![i] = @ + 1]
    /\ Fault("model_call", TRUE)
    /\ UNCHANGED <<tmp_created, chunks, replies, task_result, completed,
                   chunk_results, response, parser_vars, merger_vars>>

\* chunk_results = await asyncio.gather(*tasks): once every task is done
Gather ==
    /\ pc = "gather"
    /\ Len(completed) = chunks
    /\ chunk_results' = gather_results(chunks, completed, task_result)
    /\ pc' = "merge"
    /\ UNCHANGED <<tmp_created, tmp_exists, chunks, replies, calls, task_result,
                   completed, response, outcome, fault_stage, parser_vars,
                   merger_vars>>

\* merged_result = merge_results(chunk_results)
\* return JSONResponse(content={"ok": True, "data": merged_result}); finally
MergeRespond ==
    /\ pc = "merge"
    /\ merge_results(chunk_results).ok
    /\ response' = [ok |-> TRUE, data |-> merge_results(chunk_results).val]
    /\ outcome' = "respond"
    /\ tmp_exists' = FALSE
    /\ pc' = "done"
    /\ UNCHANGED <<tmp_created, chunks, replies, calls, task_result, completed,
                   chunk_results, fault_stage, parser_vars, merger_vars>>

\* merge_results raises
MergeFaulted ==
    /\ pc = "merge"
    /\ ~merge_results(chunk_results).ok
    /\ Fault("merge", TRUE)
    /\ UNCHANGED <<tmp_created, chunks, replies, calls, task_result, completed,
                   chunk_results, response, parser_vars, merger_vars>>

Next ==
    \/ CreateTemp
    \/ FilenameFault
    \/ WriteUpload
    \/ WriteFault
    \/ ExtractText
    \/ ExtractFault
    \/ SplitText
    \/ SplitFault
    \/ \E i \in 1..chunks : ModelCall(i)
    \/ \E i \in 1..chunks : ModelCallFault(i)
    \/ Gather
    \/ MergeRespond
    \/ MergeFaulted

Spec == Init /\ [][Next]_vars

\* ------------------------------------------------- the response parser alone

\* no request is being handled; raw_text is any reply text
ParserInit ==
    /\ pc = "idle"
    /\ tmp_created = FALSE
    /\ tmp_exists = FALSE
    /\ chunks = 0
    /\ replies = <<>>
    /\ calls = <<>>
    /\ task_result = <<>>
    /\ completed = <<>>
    /\ chunk_results = <<>>
    /\ response = NoResponse
    /\ outcome = "none"
    /\ fault_stage = ""
    /\ raw_text \in Texts(MaxLen) \cup SampleTexts
    /\ parsed = <<>>
    /\ results = <<>>
    /\ merged = <<>>

\* the response parser of process_chunk on raw_text
ParseReply ==
    /\ parsed = <<>>
    /\ parsed' = <<parse_reply(raw_text)>>
    /\ UNCHANGED <<raw_text, handler_vars, merger_vars>>

ParserNext == ParseReply

ParserSpec == ParserInit /\ [][ParserNext]_vars

\* ------------------------------------------------------- merge_results alone

\* no request is being handled; results is any sequence of chunk results
MergerInit ==
    /\ pc = "idle"
    /\ tmp_created = FALSE
    /\ tmp_exists = FALSE
    /\ chunks = 0
    /\ replies = <<>>
    /\ calls = <<>>
    /\ task_result = <<>>
    /\ completed = <<>>
    /\ chunk_results = <<>>
    /\ response = NoResponse
    /\ outcome = "none"
    /\ fault_stage = ""
    /\ raw_text = <<>>
    /\ parsed = <<>>
    /\ results \in ResultLists(MaxResults)
    /\ merged = <<>>

MergeResults ==
    /\ merged = <<>>
    /\ merged' = <<merge_results(results)>>
    /\ UNCHANGED <<results, handler_vars, parser_vars>>

MergerNext == MergeResults

MergerSpec == MergerInit /\ [][MergerNext]_vars

\* ==================================================================== claims

\* the reply `text` is a model-reply parse fault: json.loads rejects the text
\* the response parser hands it
parse_fault(text) == ~json_loads(json_text(text)).ok

\* extraction and splitting succeeded and every model call returned a reply
all_replied ==
    /\ pc \in {"merge", "done"}
    /\ Len(completed) = chunks
    /\ fault_stage \in {"", "merge"}

\* the data of a response shows an error marker
carries_error_marker(data) ==
    /\ data.t = "dict"
    /\ \/ has_key(data.pairs, error_key)
       \/ has_key(data.pairs, raw_output_key)
       \/ \E i \in 1..Len(data.pairs) : data.pairs[i].val = error_marker

\* ----------------------------------------------------------------------- C1
\* C1: once a request that created its temporary file has ended, on any exit
\* path, the temporary file no longer exists.
TempFileRemoved == (pc = "done" /\ tmp_created) => ~tmp_exists

\* ----------------------------------------------------------------------- C2
\* C2 as stated: when some chunk's reply cannot be parsed as JSON, the request
\* ends in RESPOND with ok true and "data" carries the error marker.
ParseFaultVisible ==
    (pc = "done" /\ all_replied /\ \E i \in 1..chunks : parse_fault(replies[i]))
        => /\ outcome = "respond"
           /\ response.ok
           /\ carries_error_marker(response.data)

\* the results of the chunks i.. whose reply was no parse fault
RECURSIVE kept_results(_)
kept_results(i) ==
    IF i > chunks THEN <<>>
    ELSE (IF parse_fault(replies[i]) THEN <<>> ELSE <<chunk_results[i]>>)
             \o kept_results(i + 1)

\* C2 amended: when some chunk's reply cannot be parsed as JSON, its error
\* record is absorbed by merge_results: the request ends as it would without
\* the chunks that failed to parse (RESPOND with ok true exactly when
\* merge_results accepts the other chunks' values), and "data" is the merge of
\* the other chunks' values, carrying no error marker.
ParseFaultAbsorbed ==
    (pc = "done" /\ all_replied /\ \E i \in 1..chunks : parse_fault(replies[i]))
        => LET m == merge_results(kept_results(1))
           IN  /\ (outcome = "respond") = m.ok
               /\ outcome = "respond" =>
                     /\ response.ok
                     /\ response.data = m.val
                     /\ ~carries_error_marker(response.data)

\* a request with a reply that failed to parse and a reply that gave a name
\* has responded
ParseFaultAbsorbedWitness ==
    /\ pc = "done"
    /\ outcome = "respond"
    /\ \E i \in 1..chunks : parse_fault(replies[i])
    /\ item(response.data, name_key) = JWord("Jane")

\* ----------------------------------------------------------------------- C3
\* the places <<i, j>> of raw where a well-formed JSON object stands
objects_in(raw) ==
    {ij \in (1..Len(raw)) \X (1..Len(raw)) :
        /\ ij[1] < ij[2]
        /\ raw[ij[1]] = "{"
        /\ raw[ij[2]] = "}"
        /\ json_loads(SubSeq(raw, ij[1], ij[2])).ok}

decoded_object(raw, ij) == json_loads(SubSeq(raw, ij[1], ij[2])).val

\* C3 as stated: for a reply that is a well-formed JSON object with any prose
\* before and after it, the parser returns the decoded value of that object.
EmbeddedObjectDecoded ==
    parsed # <<>> =>
        \A ij \in objects_in(raw_text) :
            ~parsed[1].raised /\ parsed[1].val = decoded_object(raw_text, ij)

\* the prose before the object holds no "{" and the prose after it no "}"
no_stray_brace(raw, ij) ==
    /\ \A k \in 1..(ij[1] - 1) : raw[k] # "{"
    /\ \A k \in (ij[2] + 1)..Len(raw) : raw[k] # "}"

\* C3 amended: for a reply that is a well-formed JSON object with prose before
\* and after it, where the prose before holds no "{" and the prose after holds
\* no "}", the parser returns the decoded value of that object.
EmbeddedObjectDecodedNoStrayBrace ==
    parsed # <<>> =>
        \A ij \in objects_in(raw_text) :
            no_stray_brace(raw_text, ij) =>
                ~parsed[1].raised /\ parsed[1].val = decoded_object(raw_text, ij)

\* an object with a member, with prose on both sides, has been decoded
EmbeddedObjectWitness ==
    /\ parsed # <<>>
    /\ \E ij \in objects_in(raw_text) :
          /\ ij[1] > 1
          /\ ij[2] < Len(raw_text)
          /\ raw_text[1] \notin Whitespace
          /\ raw_text[Len(raw_text)] \notin Whitespace
          /\ no_stray_brace(raw_text, ij)
          /\ decoded_object(raw_text, ij).pairs # <<>>
          /\ parsed[1].val = decoded_object(raw_text, ij)

RECURSIVE concatenation(_, _)
concatenation(rs, key) ==
    IF rs = <<>> THEN <<>>
    ELSE dict_get(Head(rs), key, JList(<<>>)).items \o concatenation(Tail(rs), key)

\* the elements of xs from index i on that occur at no smaller index
RECURSIVE first_occurrences(_, _)
first_occurrences(xs, i) ==
    IF i > Len(xs) THEN <<>>
    ELSE (IF \E j \in 1..(i - 1) : xs[j] = xs[i] THEN <<>> ELSE <<xs[i]>>)
             \o first_occurrences(xs, i + 1)

\* C5: what merge_results returns has skills, keywords and suggestions equal to
\* the chunks' lists in chunk order with the first occurrence of each element
\* kept, and experience, education and certifications equal to the plain
\* concatenation of the chunks' lists; merging [A, A] gives the same skills,
\* keywords and suggestions as merging [A].
MergedLists ==
    (merged # <<>> /\ merged[1].ok) =>
        /\ \A key \in {skills_key, keywords_key, suggestions_key} :
              item(merged[1].val, key) =
                  JList(first_occurrences(concatenation(results, key), 1))
        /\ \A key \in {experience_key, education_key, certifications_key} :
              item(merged[1].val, key) = JList(concatenation(results, key))
        /\ (Len(results) = 2 /\ results[1] = results[2]) =>
              \A key \in {skills_key, keywords_key, suggestions_key} :
                  item(merged[1].val, key) =
                      item(merge_results(<<results[1]>>).val, key)

\* chunks whose skills and keywords repeat and whose experience repeats have
\* been merged
MergedListsWitness ==
    /\ merged # <<>>
    /\ merged[1].ok
    /\ Len(results) >= 2
    /\ \A key \in {skills_key, keywords_key} :
          Len(item(merged[1].val, key).items) < Len(concatenation(results, key))
    /\ Len(item(merged[1].val, skills_key).items) > 2
    /\ item(merged[1].val, experience_key) = JList(<<role_dev, role_dev>>)

\* ----------------------------------------------------------------------- C6
\* the ats_score values of rs that are JSON numbers
json_number_scores(rs) ==
    LET scored == SelectSeq(rs, LAMBDA r : r.t = "dict"
                                /\ dict_get(r, ats_score_key, JNull).t = "num")
    IN  [i \in 1..Len(scored) |-> item(scored[i], ats_score_key).n]

\* a / b rounded toward zero
truncated_quotient(a, b) == IF a >= 0 THEN a \div b ELSE -((-a) \div b)

\* C6: the merged ats_score is the integer-truncated mean of the chunks'
\* numeric ats_score values, and 0 when no chunk has a numeric score.
ScoreIsTruncatedMean ==
    (merged # <<>> /\ merged[1].ok) =>
        item(merged[1].val, ats_score_key) =
            JNum(IF json_number_scores(results) = <<>> THEN 0
                 ELSE truncated_quotient(sum(json_number_scores(results)),
                                         Len(json_number_scores(results))))

\* ----------------------------------------------------------------------- C7
\* the first value of xs that is not null, `initial` when there is none
RECURSIVE first_non_null(_, _)
first_non_null(xs, initial) ==
    IF xs = <<>> THEN initial
    ELSE IF Head(xs).t # "null" THEN Head(xs)
    ELSE first_non_null(Tail(xs), initial)

field_values(rs, key) == [i \in 1..Len(rs) |-> dict_get(rs[i], key, JNull)]
contact_values(rs, field) ==
    [i \in 1..Len(rs) |->
        LET c == dict_get(rs[i], contact_key, JNull)
        IN  IF c.t = "dict" THEN dict_get(c, field, JNull) ELSE JNull]

\* C7: each scalar field of the merged result (name, contact.email,
\* contact.phone, ats_reason) is the first non-null value of that field in
\* chunk order, and keeps its initial value when no chunk has one.
ScalarsFirstNonNull ==
    (merged # <<>> /\ merged[1].ok) =>
        /\ item(merged[1].val, name_key) =
              first_non_null(field_values(results, name_key), JNull)
        /\ item(item(merged[1].val, contact_key), email_key) =
              first_non_null(contact_values(results, email_key), JNull)
        /\ item(item(merged[1].val, contact_key), phone_key) =
              first_non_null(contact_values(results, phone_key), JNull)
        /\ item(merged[1].val, ats_reason_key) =
              first_non_null(field_values(results, ats_reason_key), JStr(<<>>))

\* ----------------------------------------------------------------------- C8
brace_block(raw) == SubSeq(raw, re_search(raw).start, re_search(raw).end)

\* C8 as stated: when a brace block is found but fails to decode, the parser
\* decodes the entire trimmed reply and returns that value if it decodes; the
\* error record is returned only when the brace block (if any) and the entire
\* trimmed reply both fail to decode.
WholeReplyFallback ==
    parsed # <<>> =>
        /\ (re_search(raw_text).found /\ ~json_loads(brace_block(raw_text)).ok
            /\ json_loads(strip(raw_text)).ok)
               => parsed[1].val = json_loads(strip(raw_text)).val
        /\ parsed[1].val = error_record(raw_text)
               => ~json_loads(strip(raw_text)).ok

\* C8 amended: when a brace block is found, the parser decodes the brace block
\* alone, and returns the error record when it fails to decode, whether or not
\* the entire trimmed reply would decode; the entire trimmed reply is decoded
\* only when no brace block is found.
NoWholeReplyFallback ==
    parsed # <<>> =>
        /\ ~parsed[1].raised
        /\ re_search(raw_text).found =>
              parsed[1].val = IF json_loads(brace_block(raw_text)).ok
                              THEN json_loads(brace_block(raw_text)).val
                              ELSE error_record(raw_text)
        /\ ~re_search(raw_text).found =>
              parsed[1].val = IF json_loads(strip(raw_text)).ok
                              THEN json_loads(strip(raw_text)).val
                              ELSE error_record(raw_text)

\* a reply that is JSON as a whole, with a brace block that is not, gave an
\* error record
NoWholeReplyFallbackWitness ==
    /\ parsed # <<>>
    /\ re_search(raw_text).found
    /\ ~json_loads(brace_block(raw_text)).ok
    /\ json_loads(strip(raw_text)).ok
    /\ parsed[1].val = error_record(raw_text)

\* ----------------------------------------------------------------------- C9
\* C9: one model call is made per chunk; MERGE and RESPOND come only after
\* every chunk's call has completed; merge_results is handed the chunks'
\* results in chunk order whatever the order of completion, so the response is
\* a function of the replies in chunk order.
ResultsInChunkOrder ==
    (pc = "merge" \/ outcome = "respond" \/ fault_stage = "merge") =>
        /\ Len(completed) = chunks
        /\ \A i \in 1..chunks : calls[i] = 1
        /\ \A i \in 1..chunks : \E k \in 1..chunks : completed[k] = i
        /\ Len(chunk_results) = chunks
        /\ \A i \in 1..chunks : chunk_results[i] = parse_reply(replies[i]).val
        /\ outcome = "respond" =>
              response.data =
                  merge_results([i \in 1..chunks |-> parse_reply(replies[i]).val]).val

\* the handler is about to merge results that differ, of tasks that completed
\* in another order than the chunks'
ResultsInChunkOrderWitness ==
    /\ pc = "merge"
    /\ chunks >= 2
    /\ completed[1] # 1
    /\ chunk_results[1] # chunk_results[2]

\* ---------------------------------------------------------------------- C10
\* C10: once extraction has succeeded and every model call has returned a
\* reply, the request reaches RESPOND with ok true: merge_results faults for no
\* sequence of values the response parser returns.
MergeNeverFaults ==
    (pc = "done" /\ all_replied) => (outcome = "respond" /\ response.ok)

====
